---- MODULE Spec2Model ----
(***************************************************************************)
(* A model of the TypeScript study examples: the BankAccount and           *)
(* Temperature classes, the HttpStatus dispatcher, the Permission bit      *)
(* flags, the EventEmitter callback registry, the GenericRepository and    *)
(* getFirstElement generics, the ConfigManager singleton, the             *)
(* asynchronous fetchData and processData, and the utilities               *)
(* ArrayUtils.chunk, ArrayUtils.shuffle, MathUtils.factorial and           *)
(* StringUtils.truncate.                                                   *)
(*                                                                         *)
(* Every example is a script of its own: the variable `example` names the  *)
(* one that is running, and the others stay in their idle state.           *)
(***************************************************************************)
EXTENDS Integers, Sequences, FiniteSets, TLC

(* ------------------------------ bounds --------------------------------- *)

\* The longest sequence of calls (the constructor included) made on one account.
MaxCalls == 3

\* handleResponse is applied to every integer in -1 .. MaxStatus.
MaxStatus == 600

\* The most add() calls made on a repository, and the longest array its
\* caller makes.
MaxItems == 3

\* The longest array getFirstElement is applied to.
MaxLength == 4

\* The most getInstance() calls made.
MaxHandles == 3

\* The time at which the clock stops, in milliseconds.
MaxTime == 1500

\* The largest size chunk is called with.
MaxSize == 3

\* The most iterations of the loop of chunk that are followed.
MaxChunks == 6

\* The largest argument factorial is called with.
MaxN == 10

\* The largest length truncate is called with.
MaxTruncate == 12

\* The most on() calls made on an emitter, over all of its events.
MaxListeners == 4

VARIABLES
    example,            \* the example script that is running
    \* BankAccount
    balance,            \* BankAccount.balance
    accountLog,         \* the calls made on the account, oldest first
    withdrawReturned,   \* what the last withdraw() returned
    \* Permission
    permA, permB,       \* the arguments the permission helpers are applied to
    permCalled,         \* the helpers applied so far
    hasResult, addResult, removeResult,
    userPermissions,    \* let userPermissions
    permPc,             \* the position of the userPermissions script
    permConsole,        \* the values the script has logged
    \* HttpStatus
    status,             \* the argument of handleResponse
    httpCalled,         \* whether handleResponse has been applied
    httpResult,         \* what handleResponse returned
    \* Temperature
    celsius,            \* Temperature._celsius
    tempOp,             \* the last operation on temp
    tempArg,            \* the value it was given
    tempResult,         \* what the fahrenheit getter returned, when it was the last
    tempThrown,         \* the message of the error the last operation threw, or ""
    \* EventEmitter
    listeners,          \* EventEmitter.listeners: its own keys and their arrays
    emitterOp,          \* the last call on emitter: its name, event and argument
    invoked,            \* the callback calls the last emit made, in order
    emitterThrown,      \* the error the last call left to its caller, or ""
    onCalls,            \* per event, the callbacks on() was called with, in order
    \* GenericRepository
    arrays,             \* the arrays in memory: GenericRepository.items and a copy
    held,               \* the array the caller holds: what getAll() last returned
    adds,               \* the items add() was called with, oldest first
    repoOp,             \* the last operation of the repository example
    countResult,        \* what count() returned, when it was the last
    findResult,         \* what findById() returned, when it was the last
    \* getFirstElement
    arr,                \* the argument of getFirstElement
    firstCalled,        \* whether getFirstElement has been applied
    firstResult,        \* what getFirstElement returned
    \* ConfigManager
    instance,           \* ConfigManager.instance
    managers,           \* the ConfigManager objects constructed: their config
    handles,            \* what the getInstance() calls returned, oldest first
    stored,             \* per key, the value set() was last called with
    cfgOp,              \* the last call of the ConfigManager example
    cfgResult,          \* what get() returned, when it was the last
    \* fetchData, processData
    now,                \* the clock, in milliseconds
    caller,             \* who called fetchData: processData or the script
    asyncPc,            \* the position of processData
    timers,             \* the times at which the pending timers are due
    promise,            \* the promise fetchData returned: its state and value
    settles,            \* the calls of resolve and reject made on it
    asyncConsole,       \* the lines logged, oldest first
    \* ArrayUtils.chunk
    chunkInput,         \* the elements of the array chunk was called with
    chunkArray,         \* that array, as it is now
    chunkSize,          \* the size chunk was called with
    chunkI,             \* let i
    chunks,             \* const chunks
    chunkPc,            \* the position of chunk: "call", "loop" or "returned"
    \* ArrayUtils.shuffle
    shuffleInput,       \* the elements of the array shuffle was called with
    shuffleArray,       \* that array, as it is now
    shuffled,           \* const shuffled
    shuffleI,           \* let i
    shufflePc,          \* the position of shuffle: "call", "loop" or "returned"
    \* MathUtils.factorial
    factArg,            \* the argument of the outermost call of factorial
    factStack,          \* the n of the calls waiting for factorial(n - 1), outermost first
    factPc,             \* "call", "down" (calling), "up" (returning) or "returned"
    factN,              \* the n of the call in progress
    factResult,         \* what the call that last returned returned
    \* StringUtils.truncate
    truncStr,           \* the arguments of truncate
    truncLength,
    truncCalled,        \* whether truncate has been applied
    truncResult         \* what truncate returned

bankVars == <<balance, accountLog, withdrawReturned>>
permVars == <<permA, permB, permCalled, hasResult, addResult, removeResult,
              userPermissions, permPc, permConsole>>
httpVars == <<status, httpCalled, httpResult>>
tempVars == <<celsius, tempOp, tempArg, tempResult, tempThrown>>
emitterVars == <<listeners, emitterOp, invoked, emitterThrown, onCalls>>
repoVars == <<arrays, held, adds, repoOp, countResult, findResult>>
firstVars == <<arr, firstCalled, firstResult>>
configVars == <<instance, managers, handles, stored, cfgOp, cfgResult>>
asyncVars == <<now, caller, asyncPc, timers, promise, settles, asyncConsole>>
chunkVars == <<chunkInput, chunkArray, chunkSize, chunkI, chunks, chunkPc>>
shuffleVars == <<shuffleInput, shuffleArray, shuffled, shuffleI, shufflePc>>
factVars == <<factArg, factStack, factPc, factN, factResult>>
truncVars == <<truncStr, truncLength, truncCalled, truncResult>>
vars == <<example, bankVars, permVars, httpVars, tempVars,
      emitterVars, repoVars, firstVars, configVars, asyncVars,
      chunkVars, shuffleVars, factVars, truncVars>>

\* What the steps of one example leave alone.
notBank == <<example, permVars, httpVars, tempVars, emitterVars,
      repoVars, firstVars, configVars, asyncVars, chunkVars,
      shuffleVars, factVars, truncVars>>
notPerm == <<example, bankVars, httpVars, tempVars, emitterVars,
      repoVars, firstVars, configVars, asyncVars, chunkVars,
      shuffleVars, factVars, truncVars>>
notHttp == <<example, bankVars, permVars, tempVars, emitterVars,
      repoVars, firstVars, configVars, asyncVars, chunkVars,
      shuffleVars, factVars, truncVars>>
notTemp == <<example, bankVars, permVars, httpVars, emitterVars,
      repoVars, firstVars, configVars, asyncVars, chunkVars,
      shuffleVars, factVars, truncVars>>
notEmitter == <<example, bankVars, permVars, httpVars, tempVars, repoVars,
      firstVars, configVars, asyncVars, chunkVars, shuffleVars,
      factVars, truncVars>>
notRepo == <<example, bankVars, permVars, httpVars, tempVars,
      emitterVars, firstVars, configVars, asyncVars, chunkVars,
      shuffleVars, factVars, truncVars>>
notFirst == <<example, bankVars, permVars, httpVars, tempVars,
      emitterVars, repoVars, configVars, asyncVars, chunkVars,
      shuffleVars, factVars, truncVars>>
notConfig == <<example, bankVars, permVars, httpVars, tempVars,
      emitterVars, repoVars, firstVars, asyncVars, chunkVars,
      shuffleVars, factVars, truncVars>>
notAsync == <<example, bankVars, permVars, httpVars, tempVars,
      emitterVars, repoVars, firstVars, configVars, chunkVars,
      shuffleVars, factVars, truncVars>>
notChunk == <<example, bankVars, permVars, httpVars, tempVars,
      emitterVars, repoVars, firstVars, configVars, asyncVars,
      shuffleVars, factVars, truncVars>>
notShuffle == <<example, bankVars, permVars, httpVars, tempVars,
      emitterVars, repoVars, firstVars, configVars, asyncVars,
      chunkVars, factVars, truncVars>>
notFact == <<example, bankVars, permVars, httpVars, tempVars,
      emitterVars, repoVars, firstVars, configVars, asyncVars,
      chunkVars, shuffleVars, truncVars>>
notTrunc == <<example, bankVars, permVars, httpVars, tempVars,
      emitterVars, repoVars, firstVars, configVars, asyncVars,
      chunkVars, shuffleVars, factVars>>

(* ============================ BankAccount ============================== *)

\* The opening balances and the amounts the calls are made with.
OpeningBalances == {-50, 0, 200, 1000}
Amounts == {-100, 0, 200, 500, 1000, 2000}

BankIdle ==
    /\ balance = 0
    /\ accountLog = <<>>
    /\ withdrawReturned = FALSE

Called(op, amount) == [op |-> op, amount |-> amount]

\* constructor(accountHolder, initialBalance)
NewBankAccount(initialBalance) ==
    /\ example = "BankAccount"
    /\ accountLog = <<>>
    /\ balance' = initialBalance
    /\ accountLog' = <<Called("new", initialBalance)>>
    /\ UNCHANGED <<withdrawReturned, notBank>>

\* getBalance()
getBalance == balance

\* The balance deposit(amount) leaves.
DepositUnguarded(bal, amount) == bal + amount
DepositOverwrites(bal, amount) == IF amount > 0 THEN amount ELSE bal
DepositBalance(bal, amount) == IF amount > 0 THEN bal + amount ELSE bal

\* deposit(amount)
Deposit(amount) ==
    /\ example = "BankAccount"
    /\ accountLog # <<>>
    /\ Len(accountLog) < MaxCalls
    /\ balance' = DepositBalance(balance, amount)
    /\ accountLog' = Append(accountLog, Called("deposit", amount))
    /\ UNCHANGED <<withdrawReturned, notBank>>

\* Whether withdraw(amount) takes the money.
WithdrawAllowsOverdraft(bal, amount) == amount > 0
WithdrawAllowed(bal, amount) == amount > 0 /\ amount <= bal

\* withdraw(amount)
Withdraw(amount) ==
    /\ example = "BankAccount"
    /\ accountLog # <<>>
    /\ Len(accountLog) < MaxCalls
    /\ IF WithdrawAllowed(balance, amount)
         THEN balance' = balance - amount /\ withdrawReturned' = TRUE
         ELSE balance' = balance /\ withdrawReturned' = FALSE
    /\ accountLog' = Append(accountLog, Called("withdraw", amount))
    /\ UNCHANGED notBank

BankNext ==
    \/ \E b \in OpeningBalances : NewBankAccount(b)
    \/ \E a \in Amounts : Deposit(a)
    \/ \E a \in Amounts : Withdraw(a)

(* ============================ Permission =============================== *)

\* The bitwise operators of the language, on two's complement integers.
RECURSIVE BitAnd(_, _)
BitAnd(a, b) ==
    IF a = 0 \/ b = 0 THEN 0
    ELSE IF a = -1 THEN b
    ELSE IF b = -1 THEN a
    ELSE (a % 2) * (b % 2) + 2 * BitAnd(a \div 2, b \div 2)

RECURSIVE BitOr(_, _)
BitOr(a, b) ==
    IF a = 0 THEN b
    ELSE IF b = 0 THEN a
    ELSE IF a = -1 \/ b = -1 THEN -1
    ELSE (IF a % 2 = 1 \/ b % 2 = 1 THEN 1 ELSE 0) + 2 * BitOr(a \div 2, b \div 2)

BitNot(a) == -a - 1

ShiftLeft(a, n) == a * 2^n

\* enum Permission
None == 0
Read == ShiftLeft(1, 0)
Write == ShiftLeft(1, 1)
Execute == ShiftLeft(1, 2)
Delete == ShiftLeft(1, 3)

HasAnyPermission(userPerms, requiredPermission) ==
    BitAnd(userPerms, requiredPermission) # 0
hasPermission(userPerms, requiredPermission) ==
    BitAnd(userPerms, requiredPermission) = requiredPermission

addPermission(userPerms, newPermission) == BitOr(userPerms, newPermission)

RemoveKeepsOnly(userPerms, permissionToRemove) ==
    BitAnd(userPerms, permissionToRemove)
removePermission(userPerms, permissionToRemove) ==
    BitAnd(userPerms, BitNot(permissionToRemove))

\* Every combination of the flags.
PermissionValues ==
    0 .. BitOr(BitOr(Read, Write), BitOr(Execute, Delete))

PermIdle ==
    /\ permA = None /\ permB = None
    /\ permCalled = {}
    /\ hasResult = FALSE /\ addResult = None /\ removeResult = None
    /\ userPermissions = None
    /\ permPc = "declare"
    /\ permConsole = <<>>

PermStart ==
    /\ permA \in PermissionValues /\ permB \in PermissionValues
    /\ permCalled = {}
    /\ hasResult = FALSE /\ addResult = None /\ removeResult = None
    /\ userPermissions = None
    /\ permPc = "declare"
    /\ permConsole = <<>>

permScript == <<userPermissions, permPc, permConsole>>
permCalls == <<permCalled, hasResult, addResult, removeResult>>

CallHasPermission ==
    /\ example = "Permission"
    /\ "hasPermission" \notin permCalled
    /\ hasResult' = hasPermission(permA, permB)
    /\ permCalled' = permCalled \cup {"hasPermission"}
    /\ UNCHANGED <<permA, permB, addResult, removeResult, permScript, notPerm>>

CallAddPermission ==
    /\ example = "Permission"
    /\ "addPermission" \notin permCalled
    /\ addResult' = addPermission(permA, permB)
    /\ permCalled' = permCalled \cup {"addPermission"}
    /\ UNCHANGED <<permA, permB, hasResult, removeResult, permScript, notPerm>>

CallRemovePermission ==
    /\ example = "Permission"
    /\ "removePermission" \notin permCalled
    /\ removeResult' = removePermission(permA, permB)
    /\ permCalled' = permCalled \cup {"removePermission"}
    /\ UNCHANGED <<permA, permB, hasResult, addResult, permScript, notPerm>>

\* let userPermissions = Permission.Read | Permission.Write
DeclareUserPermissions ==
    /\ example = "Permission"
    /\ permPc = "declare"
    /\ userPermissions' = BitOr(Read, Write)
    /\ permPc' = "logHasRead"
    /\ UNCHANGED <<permA, permB, permCalls, permConsole, notPerm>>

LogHasRead ==
    /\ example = "Permission"
    /\ permPc = "logHasRead"
    /\ permConsole' = Append(permConsole, hasPermission(userPermissions, Read))
    /\ permPc' = "logHasExecute"
    /\ UNCHANGED <<permA, permB, permCalls, userPermissions, notPerm>>

LogHasExecute ==
    /\ example = "Permission"
    /\ permPc = "logHasExecute"
    /\ permConsole' = Append(permConsole, hasPermission(userPermissions, Execute))
    /\ permPc' = "addExecute"
    /\ UNCHANGED <<permA, permB, permCalls, userPermissions, notPerm>>

\* userPermissions = addPermission(userPermissions, Permission.Execute), logged
AddExecute ==
    /\ example = "Permission"
    /\ permPc = "addExecute"
    /\ userPermissions' = addPermission(userPermissions, Execute)
    /\ permConsole' = Append(permConsole, userPermissions')
    /\ permPc' = "removeWrite"
    /\ UNCHANGED <<permA, permB, permCalls, notPerm>>

\* userPermissions = removePermission(userPermissions, Permission.Write), logged
RemoveWrite ==
    /\ example = "Permission"
    /\ permPc = "removeWrite"
    /\ userPermissions' = removePermission(userPermissions, Write)
    /\ permConsole' = Append(permConsole, userPermissions')
    /\ permPc' = "done"
    /\ UNCHANGED <<permA, permB, permCalls, notPerm>>

PermNext ==
    \/ CallHasPermission
    \/ CallAddPermission
    \/ CallRemovePermission
    \/ DeclareUserPermissions
    \/ LogHasRead
    \/ LogHasExecute
    \/ AddExecute
    \/ RemoveWrite

(* ============================ HttpStatus =============================== *)

\* enum HttpStatus
HttpStatus ==
    [OK |-> 200, BadRequest |-> 400, Unauthorized |-> 401,
     Forbidden |-> 403, NotFound |-> 404, InternalServerError |-> 500]

HttpStatusMembers == {HttpStatus[k] : k \in DOMAIN HttpStatus}

HandleResponseNoNotFound(s) ==
    CASE s = HttpStatus.OK -> "Request successful"
      [] s = HttpStatus.BadRequest -> "Bad request"
      [] s = HttpStatus.InternalServerError -> "Server error"
      [] OTHER -> "Unknown status"
HandleResponseNamesUnauthorized(s) ==
    CASE s = HttpStatus.OK -> "Request successful"
      [] s = HttpStatus.BadRequest -> "Bad request"
      [] s = HttpStatus.Unauthorized -> "Unauthorized"
      [] s = HttpStatus.NotFound -> "Resource not found"
      [] s = HttpStatus.InternalServerError -> "Server error"
      [] OTHER -> "Unknown status"
handleResponse(s) ==
    CASE s = HttpStatus.OK -> "Request successful"
      [] s = HttpStatus.BadRequest -> "Bad request"
      [] s = HttpStatus.NotFound -> "Resource not found"
      [] s = HttpStatus.InternalServerError -> "Server error"
      [] OTHER -> "Unknown status"

StatusInputs == -1 .. MaxStatus

HttpIdle ==
    /\ status = 0
    /\ httpCalled = FALSE
    /\ httpResult = ""

HttpStart ==
    /\ status \in StatusInputs
    /\ httpCalled = FALSE
    /\ httpResult = ""

CallHandleResponse ==
    /\ example = "HttpStatus"
    /\ ~httpCalled
    /\ httpResult' = handleResponse(status)
    /\ httpCalled' = TRUE
    /\ UNCHANGED <<status, notHttp>>

HttpNext ==
    \/ CallHandleResponse

(* ============================== number ================================= *)
(* The language's number is an IEEE 754 double.  A double is modelled by    *)
(* its sign, its significand as a natural number of at most Precision bits  *)
(* and its exponent: the value is (-1)^neg * mant * 2^exp.  The significand *)
(* is kept odd, so that equal numbers are equal records.  The arithmetic    *)
(* rounds to nearest, ties to even, as the hardware does.  Infinities, NaN, *)
(* the negative zero and subnormals lie outside the magnitudes used here.   *)

\* The number of bits of a double's significand.
Precision == 53

Max(a, b) == IF a >= b THEN a ELSE b
Min(a, b) == IF a <= b THEN a ELSE b

\* Natural numbers of any size: sequences of limbs in 0 .. Base - 1, lowest
\* first, the highest not zero.
LimbBits == 15
Base == 2^LimbBits

RECURSIVE NatLimbs(_)
NatLimbs(i) == IF i = 0 THEN <<>> ELSE <<i % Base>> \o NatLimbs(i \div Base)

RECURSIVE Trim(_)
Trim(n) ==
    IF n = <<>> THEN <<>>
    ELSE IF n[Len(n)] = 0 THEN Trim(SubSeq(n, 1, Len(n) - 1))
    ELSE n

Limb(n, i) == IF i <= Len(n) THEN n[i] ELSE 0
Rest(n) == IF n = <<>> THEN <<>> ELSE Tail(n)

RECURSIVE BigAddC(_, _, _)
BigAddC(x, y, c) ==
    IF x = <<>> /\ y = <<>> THEN (IF c = 0 THEN <<>> ELSE <<c>>)
    ELSE LET s == Limb(x, 1) + Limb(y, 1) + c
         IN  <<s % Base>> \o BigAddC(Rest(x), Rest(y), s \div Base)

BigAdd(x, y) == BigAddC(x, y, 0)

\* x - y - b, for x >= y + b
RECURSIVE BigSubB(_, _, _)
BigSubB(x, y, b) ==
    IF x = <<>> THEN <<>>
    ELSE LET s == Limb(x, 1) - Limb(y, 1) - b
         IN  <<s % Base>> \o BigSubB(Rest(x), Rest(y), IF s < 0 THEN 1 ELSE 0)

BigSub(x, y) == Trim(BigSubB(x, y, 0))

\* -1, 0 or 1 as x is below, equal to or above y
RECURSIVE BigCmp(_, _)
BigCmp(x, y) ==
    IF x = <<>> /\ y = <<>> THEN 0
    ELSE LET high == BigCmp(Rest(x), Rest(y))
         IN  IF high # 0 THEN high
             ELSE IF Limb(x, 1) > Limb(y, 1) THEN 1
             ELSE IF Limb(x, 1) < Limb(y, 1) THEN -1
             ELSE 0

\* x * d + c, for one limb d and a carry c
RECURSIVE MulSmall(_, _, _)
MulSmall(x, d, c) ==
    IF x = <<>> THEN (IF c = 0 THEN <<>> ELSE <<c>>)
    ELSE LET p == x[1] * d + c
         IN  <<p % Base>> \o MulSmall(Tail(x), d, p \div Base)

RECURSIVE BigMulRaw(_, _)
BigMulRaw(x, y) ==
    IF y = <<>> THEN <<>>
    ELSE BigAdd(MulSmall(x, y[1], 0), <<0>> \o BigMulRaw(x, Tail(y)))

BigMul(x, y) == Trim(BigMulRaw(x, y))

\* The quotient and the remainder of n by one limb d # 0
RECURSIVE DivSmallRaw(_, _)
DivSmallRaw(n, d) ==
    IF n = <<>> THEN [q |-> <<>>, r |-> 0]
    ELSE LET high == DivSmallRaw(Tail(n), d)
             t == high.r * Base + n[1]
         IN  [q |-> <<t \div d>> \o high.q, r |-> t % d]

DivSmall(n, d) ==
    LET qr == DivSmallRaw(n, d) IN [q |-> Trim(qr.q), r |-> qr.r]

\* n * 2^k
ShiftUp(n, k) ==
    IF n = <<>> THEN <<>>
    ELSE [i \in 1 .. k \div LimbBits |-> 0] \o MulSmall(n, 2^(k % LimbBits), 0)

\* n \div 2^k
ShiftDown(n, k) ==
    IF k \div LimbBits >= Len(n) THEN <<>>
    ELSE DivSmall(SubSeq(n, k \div LimbBits + 1, Len(n)), 2^(k % LimbBits)).q

\* The number of bits of a limb, and of a natural number
RECURSIVE SmallBitLen(_)
SmallBitLen(v) == IF v = 0 THEN 0 ELSE 1 + SmallBitLen(v \div 2)

BitLen(n) ==
    IF n = <<>> THEN 0
    ELSE LimbBits * (Len(n) - 1) + SmallBitLen(n[Len(n)])

\* The number of zero bits below the lowest one of n # 0
RECURSIVE LowZeros(_)
LowZeros(n) ==
    IF n[1] = 0 THEN LimbBits + LowZeros(Tail(n))
    ELSE IF n[1] % 2 = 0 THEN 1 + LowZeros(<<n[1] \div 2>>)
    ELSE 0

Zero == [neg |-> FALSE, mant |-> <<>>, exp |-> 0]

\* The double with significand n (not zero) and exponent e, n made odd.
Odd(neg, n, e) ==
    LET z == LowZeros(n)
    IN  [neg |-> neg, mant |-> ShiftDown(n, z), exp |-> e + z]

\* The double nearest to (-1)^neg * (n + f) * 2^e, where 0 <= f < 1 and f # 0
\* exactly when sticky; ties go to the even significand.
RoundToDouble(neg, n0, e, sticky) ==
    LET n == Trim(n0)
        len == BitLen(n)
    IN  IF len = 0 THEN Zero
        ELSE IF len <= Precision THEN Odd(neg, n, e)
        ELSE LET drop == len - Precision
                 kept == ShiftDown(n, drop)
                 lost == BigSub(n, ShiftUp(kept, drop))
                 half == BigCmp(lost, ShiftUp(<<1>>, drop - 1))
                 up == half > 0 \/ (half = 0 /\ (sticky \/ kept[1] % 2 = 1))
             IN  Odd(neg, IF up THEN BigAdd(kept, <<1>>) ELSE kept, e + drop)

\* An integer literal
FromInt(i) == RoundToDouble(i < 0, NatLimbs(IF i < 0 THEN -i ELSE i), 0, FALSE)

\* unary -
FNeg(a) == IF a.mant = <<>> THEN a ELSE [a EXCEPT !.neg = ~a.neg]

\* a * b
FMul(a, b) ==
    IF a.mant = <<>> \/ b.mant = <<>> THEN Zero
    ELSE RoundToDouble(a.neg # b.neg, BigMul(a.mant, b.mant), a.exp + b.exp, FALSE)

\* a / b, for b # 0 whose odd significand is one limb (the divisors of the
\* code are the literals 5 and 9): the quotient is taken to Precision + 2
\* bits at least, and a remainder makes the result sticky.
FDiv(a, b) ==
    IF a.mant = <<>> THEN Zero
    ELSE LET k == Max(0, Precision + 2 + BitLen(b.mant) - BitLen(a.mant))
             qr == DivSmall(ShiftUp(a.mant, k), b.mant[1])
         IN  RoundToDouble(a.neg # b.neg, qr.q, a.exp - b.exp - k, qr.r # 0)

\* a + b
FAdd(a, b) ==
    IF a.mant = <<>> THEN b
    ELSE IF b.mant = <<>> THEN a
    ELSE LET e == Min(a.exp, b.exp)
             x == ShiftUp(a.mant, a.exp - e)
             y == ShiftUp(b.mant, b.exp - e)
             c == BigCmp(x, y)
         IN  IF a.neg = b.neg THEN RoundToDouble(a.neg, BigAdd(x, y), e, FALSE)
             ELSE IF c = 0 THEN Zero
             ELSE IF c > 0 THEN RoundToDouble(a.neg, BigSub(x, y), e, FALSE)
             ELSE RoundToDouble(b.neg, BigSub(y, x), e, FALSE)

\* a - b
FSub(a, b) == FAdd(a, FNeg(b))

\* a < b
FLess(a, b) ==
    LET e == Min(a.exp, b.exp)
        c == BigCmp(ShiftUp(a.mant, a.exp - e), ShiftUp(b.mant, b.exp - e))
    IN  IF a.neg # b.neg THEN a.neg
        ELSE IF a.neg THEN c > 0
        ELSE c < 0

\* A decimal literal: digits / 10^places, rounded once.
Decimal(digits, places) == FDiv(FromInt(digits), FromInt(10^places))

(* ============================ Temperature ============================== *)

\* The literal -273.15
AbsoluteZero == FNeg(Decimal(27315, 2))

BelowAbsoluteZeroMessage == "Temperature cannot be below absolute zero"

\* The values temperatures are constructed and assigned with.
TempIntegers == {-500, -460, -274, -273, -40, 0, 1, 25, 86, 100}
TempInputs ==
    {FromInt(i) : i \in TempIntegers}
      \cup {AbsoluteZero, FNeg(Decimal(27316, 2)), FNeg(Decimal(45967, 2)),
            Decimal(366, 1)}

TempIdle ==
    /\ celsius = Zero
    /\ tempOp = "none"
    /\ tempArg = Zero
    /\ tempResult = Zero
    /\ tempThrown = ""

\* What the constructor stores: this._celsius = celsius
ConstructedClamped(c) == IF FLess(c, AbsoluteZero) THEN AbsoluteZero ELSE c
Constructed(c) == c

\* constructor(celsius)
NewTemperature(c) ==
    /\ example = "Temperature"
    /\ tempOp = "none"
    /\ celsius' = Constructed(c)
    /\ tempOp' = "new"
    /\ tempArg' = c
    /\ tempResult' = Zero
    /\ tempThrown' = ""
    /\ UNCHANGED notTemp

\* The guard of the celsius setter: value < -273.15
CelsiusRejectedAtBound(value) == ~FLess(AbsoluteZero, value)
CelsiusRejected(value) == FLess(value, AbsoluteZero)

\* set celsius(value)
SetCelsius(value) ==
    /\ example = "Temperature"
    /\ tempOp # "none"
    /\ IF CelsiusRejected(value)
         THEN tempThrown' = BelowAbsoluteZeroMessage /\ celsius' = celsius
         ELSE tempThrown' = "" /\ celsius' = value
    /\ tempOp' = "setCelsius"
    /\ tempArg' = value
    /\ tempResult' = Zero
    /\ UNCHANGED notTemp

\* get fahrenheit(): (this._celsius * 9/5) + 32
FahrenheitOf(c) == FAdd(FDiv(FMul(c, FromInt(9)), FromInt(5)), FromInt(32))

GetFahrenheit ==
    /\ example = "Temperature"
    /\ tempOp # "none"
    /\ tempResult' = FahrenheitOf(celsius)
    /\ tempOp' = "getFahrenheit"
    /\ tempArg' = Zero
    /\ tempThrown' = ""
    /\ UNCHANGED <<celsius, notTemp>>

\* set fahrenheit(value): this._celsius = (value - 32) * 5/9
CelsiusOfUnbracketed(value) ==
    FSub(value, FDiv(FMul(FromInt(32), FromInt(5)), FromInt(9)))
CelsiusOf(value) == FDiv(FMul(FSub(value, FromInt(32)), FromInt(5)), FromInt(9))

SetFahrenheit(value) ==
    /\ example = "Temperature"
    /\ tempOp # "none"
    /\ celsius' = CelsiusOf(value)
    /\ tempOp' = "setFahrenheit"
    /\ tempArg' = value
    /\ tempResult' = Zero
    /\ tempThrown' = ""
    /\ UNCHANGED notTemp

\* temp.fahrenheit = f, for an input f or for the f that was just read
TempNext ==
    \/ \E c \in TempInputs : NewTemperature(c)
    \/ \E v \in TempInputs : SetCelsius(v)
    \/ GetFahrenheit
    \/ \E v \in TempInputs \cup (IF tempOp = "getFahrenheit" THEN {tempResult} ELSE {}) :
         SetFahrenheit(v)

(* ============================ EventEmitter ============================= *)

\* Event names.  listeners is a plain object, so a name that Object.prototype
\* defines ("toString") reads as a function before anything is registered.
EventNames == {"message", "close", "toString"}
InheritedNames == {"toString"}

\* The callbacks the script registers: two that return, one that throws, and
\* one that calls on(event, Second) for the event it is called with.  Second
\* returns, and only "subscriber" registers it.
Callbacks == {"logger", "counter", "thrower", "subscriber"}
Second == "second"
CallbackError == "callback failed"

EventData == {"Hello World", "Bye"}

\* private listeners = {}
NoListeners == [e \in {} |-> <<>>]

EmitterIdle ==
    /\ listeners = NoListeners
    /\ emitterOp = [op |-> "none", event |-> "", arg |-> ""]
    /\ invoked = <<>>
    /\ emitterThrown = ""
    /\ onCalls = [e \in EventNames |-> <<>>]

\* this.listeners[event]: "array", "function" (inherited) or "undefined"
Lookup(ls, event) ==
    IF event \in DOMAIN ls THEN "array"
    ELSE IF event \in InheritedNames THEN "function"
    ELSE "undefined"

\* The body of on(event, callback), for a name that is not inherited
Registered(ls, event, callback) ==
    LET made == IF Lookup(ls, event) = "undefined" THEN ls @@ (event :> <<>>) ELSE ls
    IN  [made EXCEPT ![event] = Append(@, callback)]

\* The number of registrations
RECURSIVE Registrations(_, _)
Registrations(ls, events) ==
    IF events = {} THEN 0
    ELSE LET e == CHOOSE x \in events : TRUE
         IN  Len(ls[e]) + Registrations(ls, events \ {e})

\* on(event, callback)
On(event, callback) ==
    /\ example = "EventEmitter"
    /\ Registrations(onCalls, EventNames) < MaxListeners
    /\ IF Lookup(listeners, event) = "function"
         THEN /\ emitterThrown' = "this.listeners[event].push is not a function"
              /\ UNCHANGED listeners
         ELSE /\ emitterThrown' = ""
              /\ listeners' = Registered(listeners, event, callback)
    /\ onCalls' = [onCalls EXCEPT ![event] = Append(@, callback)]
    /\ emitterOp' = [op |-> "on", event |-> event, arg |-> callback]
    /\ invoked' = <<>>
    /\ UNCHANGED notEmitter

\* this.listeners[event].forEach(callback => callback(event, data)), from the
\* k-th element on: forEach reads the length once, before the first call, and
\* stops at the first callback that throws.
RECURSIVE ForEachIsolated(_, _, _, _, _, _)
ForEachIsolated(ls, event, data, k, len, calls) ==
    IF k > len THEN [listeners |-> ls, invoked |-> calls, thrown |-> ""]
    ELSE LET callback == ls[event][k]
             called == Append(calls, <<callback, event, data>>)
         IN  IF callback = "subscriber"
               THEN ForEachIsolated(Registered(ls, event, Second), event, data,
                                    k + 1, len, called)
             ELSE ForEachIsolated(ls, event, data, k + 1, len, called)

RECURSIVE ForEachLive(_, _, _, _, _, _)
ForEachLive(ls, event, data, k, len, calls) ==
    IF k > Len(ls[event]) THEN [listeners |-> ls, invoked |-> calls, thrown |-> ""]
    ELSE LET callback == ls[event][k]
             called == Append(calls, <<callback, event, data>>)
         IN  IF callback = "thrower"
               THEN [listeners |-> ls, invoked |-> called, thrown |-> CallbackError]
             ELSE IF callback = "subscriber"
               THEN ForEachLive(Registered(ls, event, Second), event, data,
                                k + 1, len, called)
             ELSE ForEachLive(ls, event, data, k + 1, len, called)

RECURSIVE ForEach(_, _, _, _, _, _)
ForEach(ls, event, data, k, len, calls) ==
    IF k > len THEN [listeners |-> ls, invoked |-> calls, thrown |-> ""]
    ELSE LET callback == ls[event][k]
             called == Append(calls, <<callback, event, data>>)
         IN  IF callback = "thrower"
               THEN [listeners |-> ls, invoked |-> called, thrown |-> CallbackError]
             ELSE IF callback = "subscriber"
               THEN ForEach(Registered(ls, event, Second), event, data,
                            k + 1, len, called)
             ELSE ForEach(ls, event, data, k + 1, len, called)

\* What emit(event, data) leaves
Emitted(ls, event, data) ==
    CASE Lookup(ls, event) = "undefined" ->
           [listeners |-> ls, invoked |-> <<>>, thrown |-> ""]
      [] Lookup(ls, event) = "function" ->
           [listeners |-> ls, invoked |-> <<>>,
            thrown |-> "this.listeners[event].forEach is not a function"]
      [] Lookup(ls, event) = "array" ->
           ForEach(ls, event, data, 1, Len(ls[event]), <<>>)

\* The on() calls the callbacks of an emit made: one for each callback the
\* emit left registered beyond those it started with.
OnCallsDuring(ls, event, result) ==
    IF Lookup(ls, event) = "array"
      THEN SubSeq(result.listeners[event], Len(ls[event]) + 1,
                  Len(result.listeners[event]))
      ELSE <<>>

\* emit(event, data)
Emit(event, data) ==
    LET result == Emitted(listeners, event, data)
        during == OnCallsDuring(listeners, event, result)
    IN  /\ example = "EventEmitter"
        /\ Registrations(onCalls, EventNames) + Len(during) <= MaxListeners
        /\ listeners' = result.listeners
        /\ onCalls' = [onCalls EXCEPT ![event] = @ \o during]
        /\ invoked' = result.invoked
        /\ emitterThrown' = result.thrown
        /\ emitterOp' = [op |-> "emit", event |-> event, arg |-> data]
        /\ UNCHANGED notEmitter

EmitterNext ==
    \/ \E e \in EventNames, c \in Callbacks : On(e, c)
    \/ \E e \in EventNames, d \in EventData : Emit(e, d)

(* ========================= GenericRepository ========================== *)

\* Values of item fields, with their JavaScript type
Num(numeral) == [type |-> "number", value |-> numeral]
Str(text) == [type |-> "string", value |-> text]
NoValue == [type |-> "undefined", value |-> ""]

\* a === b
StrictEquals(a, b) == a.type = b.type /\ a.value = b.value

\* The users of the example and one more, which shares its id with the first
\* and its name with the second.
Users ==
    {[id |-> Num("1"), name |-> Str("Alice")],
     [id |-> Num("2"), name |-> Str("Bob")],
     [id |-> Num("1"), name |-> Str("Bob")]}
UserKeys == {"id", "name"}
FieldValues == {Num("1"), Num("2"), Num("3"), Str("Alice"), Str("Bob"), Str("1")}

\* The arrays: the one GenericRepository.items refers to and the one getAll()
\* allocates.  The caller keeps the array of its last getAll() only.
ArrayRefs == {"items", "copy"}

RepoCalled(op, key, value, items) == [op |-> op, key |-> key, value |-> value, items |-> items]

\* private items: T[] = []
RepoIdle ==
    /\ arrays = [r \in ArrayRefs |-> <<>>]
    /\ held = "none"
    /\ adds = <<>>
    /\ repoOp = RepoCalled("new", "", NoValue, <<>>)
    /\ countResult = 0
    /\ findResult = <<>>

\* array.push(item)
PushedUnlessPresent(array, item) ==
    IF \E i \in 1 .. Len(array) : array[i] = item THEN array ELSE Append(array, item)
Pushed(array, item) == Append(array, item)

\* add(item)
Add(item) ==
    /\ example = "GenericRepository"
    /\ Len(adds) < MaxItems
    /\ arrays' = [arrays EXCEPT !["items"] = Pushed(@, item)]
    /\ adds' = Append(adds, item)
    /\ repoOp' = RepoCalled("add", "", NoValue, <<item>>)
    /\ countResult' = 0
    /\ findResult' = <<>>
    /\ UNCHANGED <<held, notRepo>>

\* What getAll() returns and the arrays it leaves: [...this.items] is a new
\* array with the elements of items.
GetAllReturnsItems(mem) == [arrays |-> mem, returned |-> "items"]
GetAllResult(mem) ==
    [arrays |-> [mem EXCEPT !["copy"] = mem["items"]], returned |-> "copy"]

\* getAll()
GetAll ==
    /\ example = "GenericRepository"
    /\ arrays' = GetAllResult(arrays).arrays
    /\ held' = GetAllResult(arrays).returned
    /\ repoOp' = RepoCalled("getAll", "", NoValue, <<>>)
    /\ countResult' = 0
    /\ findResult' = <<>>
    /\ UNCHANGED <<adds, notRepo>>

\* array.find(item => item[id] === value), from the k-th element on: the
\* first element that matches, or nothing (undefined)
RECURSIVE FindFrom(_, _, _, _)
FindFrom(array, id, value, k) ==
    IF k > Len(array) THEN <<>>
    ELSE IF StrictEquals(array[k][id], value) THEN <<array[k]>>
    ELSE FindFrom(array, id, value, k + 1)

\* findById(id, value)
FindById(id, value) ==
    /\ example = "GenericRepository"
    /\ findResult' = FindFrom(arrays["items"], id, value, 1)
    /\ repoOp' = RepoCalled("findById", id, value, <<>>)
    /\ countResult' = 0
    /\ UNCHANGED <<arrays, held, adds, notRepo>>

\* count()
Count ==
    /\ example = "GenericRepository"
    /\ countResult' = Len(arrays["items"])
    /\ repoOp' = RepoCalled("count", "", NoValue, <<>>)
    /\ findResult' = <<>>
    /\ UNCHANGED <<arrays, held, adds, notRepo>>

Reversed(array) == [i \in 1 .. Len(array) |-> array[Len(array) + 1 - i]]

\* What the caller does with the array getAll() returned: push, pop, reverse
CallerChanges(op, items, changed) ==
    /\ example = "GenericRepository"
    /\ held # "none"
    /\ arrays' = [arrays EXCEPT ![held] = changed]
    /\ repoOp' = RepoCalled(op, "", NoValue, items)
    /\ countResult' = 0
    /\ findResult' = <<>>
    /\ UNCHANGED <<held, adds, notRepo>>

CallerPush(item) ==
    /\ held # "none"
    /\ Len(arrays[held]) < MaxItems
    /\ CallerChanges("push", <<item>>, Append(arrays[held], item))

CallerPop ==
    /\ held # "none"
    /\ arrays[held] # <<>>
    /\ CallerChanges("pop", <<>>, SubSeq(arrays[held], 1, Len(arrays[held]) - 1))

CallerReverse ==
    /\ held # "none"
    /\ CallerChanges("reverse", <<>>, Reversed(arrays[held]))

RepoNext ==
    \/ \E u \in Users : Add(u)
    \/ GetAll
    \/ \E k \in UserKeys, v \in FieldValues : FindById(k, v)
    \/ Count
    \/ \E u \in Users : CallerPush(u)
    \/ CallerPop
    \/ CallerReverse

(* ========================== getFirstElement =========================== *)

\* The arrays getFirstElement is applied to: every array of at most MaxLength
\* of these elements.  A result is <<>> for undefined and <<v>> for a value v.
Elements == {"a", "b", "c"}
Arrays == UNION {[1 .. n -> Elements] : n \in 0 .. MaxLength}

\* arr.length > 0 ? arr[0] : undefined
GetFirstElementOfLonger(array) == IF Len(array) > 1 THEN <<array[1]>> ELSE <<>>
getFirstElement(array) == IF Len(array) > 0 THEN <<array[1]>> ELSE <<>>

FirstIdle ==
    /\ arr = <<>>
    /\ firstCalled = FALSE
    /\ firstResult = <<>>

FirstStart ==
    /\ arr \in Arrays
    /\ firstCalled = FALSE
    /\ firstResult = <<>>

CallGetFirstElement ==
    /\ example = "getFirstElement"
    /\ ~firstCalled
    /\ firstResult' = getFirstElement(arr)
    /\ firstCalled' = TRUE
    /\ UNCHANGED <<arr, notFirst>>

FirstNext ==
    \/ CallGetFirstElement

(* =========================== ConfigManager ============================ *)

\* The keys and values of the example and others.  config is a plain object,
\* so a key that Object.prototype defines ("toString") reads as a function
\* until it is set.
ConfigKeys == {"apiUrl", "timeout", "toString"}
ConfigValues == {"https://api.example.com", "5000"}

\* private static instance: not assigned yet.  A ConfigManager is named by
\* its position in managers.
NoInstance == 0

\* private config = {}
NoConfig == [k \in {} |-> ""]

ConfigCalled(op, handle, key, value) ==
    [op |-> op, handle |-> handle, key |-> key, value |-> value]
Undefined == [kind |-> "undefined", value |-> ""]

ConfigIdle ==
    /\ instance = NoInstance
    /\ managers = <<>>
    /\ handles = <<>>
    /\ stored = [k \in ConfigKeys |-> <<>>]
    /\ cfgOp = ConfigCalled("none", 0, "", "")
    /\ cfgResult = Undefined

\* What getInstance() leaves: the instance and the managers constructed
GetInstanceAlwaysNew(inst, mgrs) ==
    [instance |-> Len(mgrs) + 1, managers |-> Append(mgrs, NoConfig)]
GetInstanceResult(inst, mgrs) ==
    IF inst = NoInstance
      THEN [instance |-> Len(mgrs) + 1, managers |-> Append(mgrs, NoConfig)]
      ELSE [instance |-> inst, managers |-> mgrs]

\* ConfigManager.getInstance()
GetInstance ==
    LET result == GetInstanceResult(instance, managers)
    IN  /\ example = "ConfigManager"
        /\ Len(handles) < MaxHandles
        /\ instance' = result.instance
        /\ managers' = result.managers
        /\ handles' = Append(handles, result.instance)
        /\ cfgOp' = ConfigCalled("getInstance", Len(handles) + 1, "", "")
        /\ cfgResult' = Undefined
        /\ UNCHANGED <<stored, notConfig>>

\* this.config[key] = value
WrittenKey(config, key, value) ==
    IF key \in DOMAIN config THEN [config EXCEPT ![key] = value]
    ELSE config @@ (key :> value)

\* set(key, value), on the result of the h-th getInstance()
Set(h, key, value) ==
    /\ example = "ConfigManager"
    /\ h \in 1 .. Len(handles)
    /\ managers' = [managers EXCEPT ![handles[h]] = WrittenKey(@, key, value)]
    /\ stored' = [stored EXCEPT ![key] = <<value>>]
    /\ cfgOp' = ConfigCalled("set", h, key, value)
    /\ cfgResult' = Undefined
    /\ UNCHANGED <<instance, handles, notConfig>>

\* this.config[key]
ReadKey(config, key) ==
    IF key \in DOMAIN config THEN [kind |-> "value", value |-> config[key]]
    ELSE IF key \in InheritedNames THEN [kind |-> "function", value |-> key]
    ELSE Undefined

\* get(key), on the result of the h-th getInstance()
Get(h, key) ==
    /\ example = "ConfigManager"
    /\ h \in 1 .. Len(handles)
    /\ cfgResult' = ReadKey(managers[handles[h]], key)
    /\ cfgOp' = ConfigCalled("get", h, key, "")
    /\ UNCHANGED <<instance, managers, handles, stored, notConfig>>

ConfigNext ==
    \/ GetInstance
    \/ \E h \in 1 .. MaxHandles, k \in ConfigKeys, v \in ConfigValues : Set(h, k, v)
    \/ \E h \in 1 .. MaxHandles, k \in ConfigKeys : Get(h, k)

(* ====================== fetchData, processData ======================== *)

\* The url processData fetches, and the urls the script calls fetchData with
ApiUrl == "https://api.example.com"
Urls == {ApiUrl, "/users", ""}

\* setTimeout(.., 1000)
TimerDelay == 1000

\* The time that passes in one step of the clock, in milliseconds
TickSteps == {100, 300}

NoCaller == [who |-> "none", url |-> ""]
NoPromise == [state |-> "none", value |-> ""]

AsyncIdle ==
    /\ now = 0
    /\ caller = NoCaller
    /\ asyncPc = "idle"
    /\ timers = {}
    /\ promise = NoPromise
    /\ settles = <<>>
    /\ asyncConsole = <<>>

\* fetchData(url): the executor of new Promise runs at once and sets the
\* timer; the promise is returned pending.
FetchData(url) ==
    /\ promise' = [state |-> "pending", value |-> ""]
    /\ timers' = timers \cup {[due |-> now + TimerDelay, url |-> url]}
    /\ UNCHANGED <<now, settles, asyncConsole>>

\* processData(), up to the await
CallProcessData ==
    /\ example = "processData"
    /\ caller = NoCaller
    /\ now + TimerDelay <= MaxTime
    /\ caller' = [who |-> "processData", url |-> ApiUrl]
    /\ asyncPc' = "await"
    /\ FetchData(ApiUrl)
    /\ UNCHANGED notAsync

\* fetchData(url), called by the script, which keeps the promise
CallFetchData(url) ==
    /\ example = "processData"
    /\ caller = NoCaller
    /\ now + TimerDelay <= MaxTime
    /\ caller' = [who |-> "script", url |-> url]
    /\ FetchData(url)
    /\ UNCHANGED <<asyncPc, notAsync>>

\* Time passes
Tick(ms) ==
    /\ example = "processData"
    /\ now + ms <= MaxTime
    /\ now' = now + ms
    /\ UNCHANGED <<caller, asyncPc, timers, promise, settles, asyncConsole, notAsync>>

\* The callback of setTimeout: () => { resolve(`Data from ${url}`); }
TimerCallbackRejects(url) == [call |-> "reject", value |-> "Data from " \o url]
TimerCallback(url) == [call |-> "resolve", value |-> "Data from " \o url]

\* A promise after a call of resolve or reject: only a pending promise changes
Settled(p, settle) ==
    IF p.state # "pending" THEN p
    ELSE [state |-> IF settle.call = "resolve" THEN "fulfilled" ELSE "rejected",
          value |-> settle.value]

\* A timer that is due runs its callback, once
TimerFires ==
    \E timer \in timers :
       /\ example = "processData"
       /\ timer.due <= now
       /\ timers' = timers \ {timer}
       /\ settles' = Append(settles, TimerCallback(timer.url))
       /\ promise' = Settled(promise, TimerCallback(timer.url))
       /\ UNCHANGED <<now, caller, asyncPc, asyncConsole, notAsync>>

\* Whether the function suspended at `await p` can go on
AwaitReturnsAtOnce(p) == TRUE
AwaitReturns(p) == p.state \in {"fulfilled", "rejected"}

\* processData() from the await on: console.log(data), or the catch branch
Resume ==
    /\ example = "processData"
    /\ asyncPc = "await"
    /\ AwaitReturns(promise)
    /\ IF promise.state = "rejected"
         THEN /\ asyncConsole' = Append(asyncConsole,
                    [stream |-> "error", text |-> "Error fetching data: " \o promise.value])
              /\ asyncPc' = "caught"
         ELSE /\ asyncConsole' = Append(asyncConsole,
                    [stream |-> "log", text |-> promise.value])
              /\ asyncPc' = "done"
    /\ UNCHANGED <<now, caller, timers, promise, settles, notAsync>>

AsyncNext ==
    \/ CallProcessData
    \/ \E u \in Urls : CallFetchData(u)
    \/ \E ms \in TickSteps : Tick(ms)
    \/ TimerFires
    \/ Resume

(* ========================== ArrayUtils.chunk ========================== *)

\* The sizes chunk is called with
ChunkSizes == -2 .. MaxSize

ChunkIdle ==
    /\ chunkInput = <<>>
    /\ chunkArray = <<>>
    /\ chunkSize = 0
    /\ chunkI = 0
    /\ chunks = <<>>
    /\ chunkPc = "idle"

\* chunk(array, size) is about to be called
ChunkStart ==
    /\ chunkInput \in Arrays
    /\ chunkArray = chunkInput
    /\ chunkSize \in ChunkSizes
    /\ chunkI = 0
    /\ chunks = <<>>
    /\ chunkPc = "call"

\* The position an index of slice stands for in an array of len elements: a
\* negative index counts from the end, and both ends are clamped.
RelativeIndex(index, len) ==
    IF index < 0 THEN Max(len + index, 0) ELSE Min(index, len)

\* array.slice(start, end)
Slice(array, start, end) ==
    SubSeq(array, RelativeIndex(start, Len(array)) + 1, RelativeIndex(end, Len(array)))

\* One iteration of the loop: chunks.push(array.slice(i, i + size)); i += size
ChunkIterationSlicesToSize(array, size, i, acc) ==
    [array |-> array, i |-> i + size, chunks |-> Append(acc, Slice(array, i, size))]
ChunkIterationStepsByOne(array, size, i, acc) ==
    [array |-> array, i |-> i + 1, chunks |-> Append(acc, Slice(array, i, i + size))]
ChunkIteration(array, size, i, acc) ==
    [array |-> array, i |-> i + size, chunks |-> Append(acc, Slice(array, i, i + size))]

\* const chunks = []; let i = 0
CallChunk ==
    /\ example = "chunk"
    /\ chunkPc = "call"
    /\ chunks' = <<>>
    /\ chunkI' = 0
    /\ chunkPc' = "loop"
    /\ UNCHANGED <<chunkInput, chunkArray, chunkSize, notChunk>>

\* i < array.length: the body of the loop
ChunkLoop ==
    LET iteration == ChunkIteration(chunkArray, chunkSize, chunkI, chunks)
    IN  /\ example = "chunk"
        /\ chunkPc = "loop"
        /\ chunkI < Len(chunkArray)
        /\ Len(chunks) < MaxChunks
        /\ chunkArray' = iteration.array
        /\ chunkI' = iteration.i
        /\ chunks' = iteration.chunks
        /\ UNCHANGED <<chunkInput, chunkSize, chunkPc, notChunk>>

\* !(i < array.length): return chunks
ChunkReturn ==
    /\ example = "chunk"
    /\ chunkPc = "loop"
    /\ ~(chunkI < Len(chunkArray))
    /\ chunkPc' = "returned"
    /\ UNCHANGED <<chunkInput, chunkArray, chunkSize, chunkI, chunks, notChunk>>

ChunkNext ==
    \/ CallChunk
    \/ ChunkLoop
    \/ ChunkReturn

(* ========================= ArrayUtils.shuffle ========================= *)

ShuffleIdle ==
    /\ shuffleInput = <<>>
    /\ shuffleArray = <<>>
    /\ shuffled = <<>>
    /\ shuffleI = 0
    /\ shufflePc = "idle"

\* shuffle(array) is about to be called
ShuffleStart ==
    /\ shuffleInput \in Arrays
    /\ shuffleArray = shuffleInput
    /\ shuffled = <<>>
    /\ shuffleI = 0
    /\ shufflePc = "call"

\* Math.floor(Math.random() * (i + 1)): Math.random() is in [0, 1), so every
\* integer of 0 .. i and no other
RandomIndexes(i) == 0 .. i

\* [shuffled[i], shuffled[j]] = [shuffled[j], shuffled[i]], indexes from 0
SwappedOverwrites(array, i, j) == [array EXCEPT ![i + 1] = array[j + 1]]
Swapped(array, i, j) ==
    [array EXCEPT ![i + 1] = array[j + 1], ![j + 1] = array[i + 1]]

\* const shuffled = [...array]; let i = shuffled.length - 1
CallShuffle ==
    /\ example = "shuffle"
    /\ shufflePc = "call"
    /\ shuffled' = shuffleArray
    /\ shuffleI' = Len(shuffleArray) - 1
    /\ shufflePc' = "loop"
    /\ UNCHANGED <<shuffleInput, shuffleArray, notShuffle>>

\* i > 0: the body of the loop, with j the random index; i--
ShuffleLoop(j) ==
    /\ example = "shuffle"
    /\ shufflePc = "loop"
    /\ shuffleI > 0
    /\ shuffled' = Swapped(shuffled, shuffleI, j)
    /\ shuffleI' = shuffleI - 1
    /\ UNCHANGED <<shuffleInput, shuffleArray, shufflePc, notShuffle>>

\* !(i > 0): return shuffled
ShuffleReturn ==
    /\ example = "shuffle"
    /\ shufflePc = "loop"
    /\ ~(shuffleI > 0)
    /\ shufflePc' = "returned"
    /\ UNCHANGED <<shuffleInput, shuffleArray, shuffled, shuffleI, notShuffle>>

ShuffleNext ==
    \/ CallShuffle
    \/ \E j \in RandomIndexes(shuffleI) : ShuffleLoop(j)
    \/ ShuffleReturn

(* ========================= MathUtils.factorial ======================== *)

\* The arguments factorial is called with
FactArgs == -3 .. MaxN

FactIdle ==
    /\ factArg = 0
    /\ factStack = <<>>
    /\ factPc = "idle"
    /\ factN = 0
    /\ factResult = 0

\* factorial(n) is about to be called
FactStart ==
    /\ factArg \in FactArgs
    /\ factStack = <<>>
    /\ factPc = "call"
    /\ factN = factArg
    /\ factResult = 0

\* n <= 1
BaseCase(n) == n <= 1

\* n * MathUtils.factorial(n - 1), with the value the inner call returned
ProductAdds(n, inner) == n + inner
Product(n, inner) == n * inner

\* if (n <= 1) return 1
FactBase ==
    /\ example = "factorial"
    /\ factPc \in {"call", "down"}
    /\ BaseCase(factN)
    /\ factResult' = 1
    /\ factPc' = "up"
    /\ UNCHANGED <<factArg, factStack, factN, notFact>>

\* MathUtils.factorial(n - 1) is called; the call for n waits
FactRecurse ==
    /\ example = "factorial"
    /\ factPc \in {"call", "down"}
    /\ ~BaseCase(factN)
    /\ factStack' = Append(factStack, factN)
    /\ factN' = factN - 1
    /\ factPc' = "down"
    /\ UNCHANGED <<factArg, factResult, notFact>>

\* The innermost waiting call returns n * (what its inner call returned)
FactMultiply ==
    /\ example = "factorial"
    /\ factPc = "up"
    /\ factStack # <<>>
    /\ factResult' = Product(factStack[Len(factStack)], factResult)
    /\ factN' = factStack[Len(factStack)]
    /\ factStack' = SubSeq(factStack, 1, Len(factStack) - 1)
    /\ UNCHANGED <<factArg, factPc, notFact>>

\* The outermost call has returned
FactDone ==
    /\ example = "factorial"
    /\ factPc = "up"
    /\ factStack = <<>>
    /\ factPc' = "returned"
    /\ UNCHANGED <<factArg, factStack, factN, factResult, notFact>>

FactNext ==
    \/ FactBase
    \/ FactRecurse
    \/ FactMultiply
    \/ FactDone

(* ======================== StringUtils.truncate ======================== *)

\* The strings and lengths truncate is called with
TruncStrings == {"", "a", "ab", "abc", "Hello", "Hello World", "This is a long string"}
TruncLengths == -2 .. MaxTruncate

TruncIdle ==
    /\ truncStr = ""
    /\ truncLength = 0
    /\ truncCalled = FALSE
    /\ truncResult = ""

TruncStart ==
    /\ truncStr \in TruncStrings
    /\ truncLength \in TruncLengths
    /\ truncCalled = FALSE
    /\ truncResult = ""

\* str.substring(start, end): both ends are clamped to 0 .. str.length and
\* put in order
Substring(str, start, end) ==
    LET from == Min(Max(start, 0), Len(str))
        to == Min(Max(end, 0), Len(str))
    IN  SubSeq(str, Min(from, to) + 1, Max(from, to))

\* str.length > length ? str.substring(0, length) + '...' : str
TruncateWithinLength(str, length) ==
    IF Len(str) > length THEN Substring(str, 0, length - 3) \o "..." ELSE str
truncate(str, length) ==
    IF Len(str) > length THEN Substring(str, 0, length) \o "..." ELSE str

CallTruncate ==
    /\ example = "truncate"
    /\ ~truncCalled
    /\ truncResult' = truncate(truncStr, truncLength)
    /\ truncCalled' = TRUE
    /\ UNCHANGED <<truncStr, truncLength, notTrunc>>

TruncNext ==
    \/ CallTruncate

(* ========================== specifications ============================= *)

InitBank ==
    /\ example = "BankAccount"
    /\ BankIdle /\ PermIdle /\ HttpIdle /\ TempIdle /\ EmitterIdle
    /\ RepoIdle /\ FirstIdle /\ ConfigIdle /\ AsyncIdle
    /\ ChunkIdle /\ ShuffleIdle /\ FactIdle /\ TruncIdle
InitPerm ==
    /\ example = "Permission"
    /\ BankIdle /\ PermStart /\ HttpIdle /\ TempIdle /\ EmitterIdle
    /\ RepoIdle /\ FirstIdle /\ ConfigIdle /\ AsyncIdle
    /\ ChunkIdle /\ ShuffleIdle /\ FactIdle /\ TruncIdle
InitHttp ==
    /\ example = "HttpStatus"
    /\ BankIdle /\ PermIdle /\ HttpStart /\ TempIdle /\ EmitterIdle
    /\ RepoIdle /\ FirstIdle /\ ConfigIdle /\ AsyncIdle
    /\ ChunkIdle /\ ShuffleIdle /\ FactIdle /\ TruncIdle
InitTemp ==
    /\ example = "Temperature"
    /\ BankIdle /\ PermIdle /\ HttpIdle /\ TempIdle /\ EmitterIdle
    /\ RepoIdle /\ FirstIdle /\ ConfigIdle /\ AsyncIdle
    /\ ChunkIdle /\ ShuffleIdle /\ FactIdle /\ TruncIdle
InitEmitter ==
    /\ example = "EventEmitter"
    /\ BankIdle /\ PermIdle /\ HttpIdle /\ TempIdle /\ EmitterIdle
    /\ RepoIdle /\ FirstIdle /\ ConfigIdle /\ AsyncIdle
    /\ ChunkIdle /\ ShuffleIdle /\ FactIdle /\ TruncIdle
InitRepo ==
    /\ example = "GenericRepository"
    /\ BankIdle /\ PermIdle /\ HttpIdle /\ TempIdle /\ EmitterIdle
    /\ RepoIdle /\ FirstIdle /\ ConfigIdle /\ AsyncIdle
    /\ ChunkIdle /\ ShuffleIdle /\ FactIdle /\ TruncIdle
InitFirst ==
    /\ example = "getFirstElement"
    /\ BankIdle /\ PermIdle /\ HttpIdle /\ TempIdle /\ EmitterIdle
    /\ RepoIdle /\ FirstStart /\ ConfigIdle /\ AsyncIdle
    /\ ChunkIdle /\ ShuffleIdle /\ FactIdle /\ TruncIdle
InitConfig ==
    /\ example = "ConfigManager"
    /\ BankIdle /\ PermIdle /\ HttpIdle /\ TempIdle /\ EmitterIdle
    /\ RepoIdle /\ FirstIdle /\ ConfigIdle /\ AsyncIdle
    /\ ChunkIdle /\ ShuffleIdle /\ FactIdle /\ TruncIdle
InitAsync ==
    /\ example = "processData"
    /\ BankIdle /\ PermIdle /\ HttpIdle /\ TempIdle /\ EmitterIdle
    /\ RepoIdle /\ FirstIdle /\ ConfigIdle /\ AsyncIdle
    /\ ChunkIdle /\ ShuffleIdle /\ FactIdle /\ TruncIdle
InitChunk ==
    /\ example = "chunk"
    /\ BankIdle /\ PermIdle /\ HttpIdle /\ TempIdle /\ EmitterIdle
    /\ RepoIdle /\ FirstIdle /\ ConfigIdle /\ AsyncIdle
    /\ ChunkStart /\ ShuffleIdle /\ FactIdle /\ TruncIdle
InitShuffle ==
    /\ example = "shuffle"
    /\ BankIdle /\ PermIdle /\ HttpIdle /\ TempIdle /\ EmitterIdle
    /\ RepoIdle /\ FirstIdle /\ ConfigIdle /\ AsyncIdle
    /\ ChunkIdle /\ ShuffleStart /\ FactIdle /\ TruncIdle
InitFact ==
    /\ example = "factorial"
    /\ BankIdle /\ PermIdle /\ HttpIdle /\ TempIdle /\ EmitterIdle
    /\ RepoIdle /\ FirstIdle /\ ConfigIdle /\ AsyncIdle
    /\ ChunkIdle /\ ShuffleIdle /\ FactStart /\ TruncIdle
InitTrunc ==
    /\ example = "truncate"
    /\ BankIdle /\ PermIdle /\ HttpIdle /\ TempIdle /\ EmitterIdle
    /\ RepoIdle /\ FirstIdle /\ ConfigIdle /\ AsyncIdle
    /\ ChunkIdle /\ ShuffleIdle /\ FactIdle /\ TruncStart

SpecBank == InitBank /\ [][BankNext]_vars
SpecPerm == InitPerm /\ [][PermNext]_vars
SpecHttp == InitHttp /\ [][HttpNext]_vars
SpecTemp == InitTemp /\ [][TempNext]_vars
SpecEmitter == InitEmitter /\ [][EmitterNext]_vars
SpecRepo == InitRepo /\ [][RepoNext]_vars
SpecFirst == InitFirst /\ [][FirstNext]_vars
SpecConfig == InitConfig /\ [][ConfigNext]_vars
SpecAsync == InitAsync /\ [][AsyncNext]_vars
SpecChunk == InitChunk /\ [][ChunkNext]_vars
SpecShuffle == InitShuffle /\ [][ShuffleNext]_vars
SpecFact == InitFact /\ [][FactNext]_vars
SpecTrunc == InitTrunc /\ [][TruncNext]_vars

\* The event loop runs a timer that is due and a continuation that is ready,
\* and time passes.
SpecAsyncFair ==
    /\ SpecAsync
    /\ WF_vars(\E ms \in TickSteps : Tick(ms))
    /\ WF_vars(TimerFires)
    /\ WF_vars(Resume)

\* A call that has started keeps running: the next iteration of its loop, or
\* the next call or return of its recursion, is taken.
SpecChunkFair == SpecChunk /\ WF_vars(ChunkNext)
SpecShuffleFair == SpecShuffle /\ WF_vars(ShuffleNext)
SpecFactFair == SpecFact /\ WF_vars(FactNext)

Init ==
    \/ InitBank \/ InitPerm \/ InitHttp \/ InitTemp \/ InitEmitter
    \/ InitRepo \/ InitFirst \/ InitConfig \/ InitAsync
    \/ InitChunk \/ InitShuffle \/ InitFact \/ InitTrunc
Next ==
    \/ BankNext \/ PermNext \/ HttpNext \/ TempNext \/ EmitterNext
    \/ RepoNext \/ FirstNext \/ ConfigNext \/ AsyncNext
    \/ ChunkNext \/ ShuffleNext \/ FactNext \/ TruncNext
Spec == Init /\ [][Next]_vars

(* ============================ properties ================================ *)

Last(s) == s[Len(s)]

\* The README script: new BankAccount("John Doe", 1000), deposit(500), withdraw(200).
ExampleCalls ==
    <<Called("new", 1000), Called("deposit", 500), Called("withdraw", 200)>>

\* C1: an account opened with 1000 reports a balance of 1300 after deposit(500)
\* followed by withdraw(200), and that withdraw returned true.
C1_ExampleBalance ==
    accountLog = ExampleCalls => getBalance = 1300 /\ withdrawReturned = TRUE

C1_Witness == accountLog = ExampleCalls /\ balance = 1300

\* C2: withdraw(amount) returns true and lowers the balance by amount exactly
\* when 0 < amount <= balance; otherwise it returns false and the balance stays.
C2_WithdrawGuard ==
    [][(accountLog' # accountLog /\ Last(accountLog').op = "withdraw") =>
         LET amount == Last(accountLog').amount IN
           IF 0 < amount /\ amount <= balance
             THEN withdrawReturned' = TRUE /\ balance' = balance - amount
             ELSE withdrawReturned' = FALSE /\ balance' = balance]_vars

\* A refused withdrawal (2000 of 1000) followed by a granted one.
C2_Witness ==
    /\ accountLog = <<Called("new", 1000), Called("withdraw", 2000),
                      Called("withdraw", 200)>>
    /\ balance = 800
    /\ withdrawReturned = TRUE

C4_PermissionScript ==
    /\ permPc = "logHasRead" => userPermissions = 3
    /\ permPc = "removeWrite" => userPermissions = 7
    /\ permPc = "done" =>
         /\ permConsole = <<TRUE, FALSE, 7, 5>>
         /\ userPermissions = 5

C4_Witness == permPc = "done" /\ Len(permConsole) = 4 /\ userPermissions = 5

\* The flags of a Permission value, as the set of their bit positions.
FlagBits(v) == {i \in 0 .. 3 : (v \div 2^i) % 2 = 1}

\* C5: on the values 0..15 read as sets of flags, addPermission is the union,
\* removePermission the difference and hasPermission the subset test.
C5_PermissionSetAlgebra ==
    /\ "addPermission" \in permCalled =>
         /\ addResult \in PermissionValues
         /\ FlagBits(addResult) = FlagBits(permA) \cup FlagBits(permB)
    /\ "removePermission" \in permCalled =>
         /\ removeResult \in PermissionValues
         /\ FlagBits(removeResult) = FlagBits(permA) \ FlagBits(permB)
    /\ "hasPermission" \in permCalled =>
         (hasResult <=> FlagBits(permB) \subseteq FlagBits(permA))

\* Read|Execute against Write|Execute: neither a subset nor disjoint.
C5_Witness ==
    /\ permCalled = {"hasPermission", "addPermission", "removePermission"}
    /\ permA = 5 /\ permB = 6
    /\ addResult = 7 /\ removeResult = 1 /\ hasResult = FALSE

\* C6: handleResponse maps 200 to "Request successful", 404 to "Resource not
\* found", and every number outside the enumeration to "Unknown status".
C6_HandleResponse ==
    httpCalled =>
      /\ status = 200 => httpResult = "Request successful"
      /\ status = 404 => httpResult = "Resource not found"
      /\ status \notin HttpStatusMembers => httpResult = "Unknown status"

C6_Witness == httpCalled /\ status = 404 /\ httpResult = "Resource not found"

\* A step that assigns the fahrenheit just read back through the setter:
\* temp.fahrenheit = temp.fahrenheit
RoundTripStep ==
    /\ tempOp = "getFahrenheit"
    /\ tempOp' = "setFahrenheit"
    /\ tempArg' = tempResult

\* At 25 degrees Celsius the fahrenheit getter reads 77.
ReadsSeventySeven ==
    (tempOp = "getFahrenheit" /\ celsius = FromInt(25)) => tempResult = FromInt(77)

\* C7 as stated: at 25 degrees the getter reads 77, and assigning the
\* fahrenheit just read back leaves the stored celsius as it was, whatever it was.
C7_RoundTripIdentity ==
    /\ []ReadsSeventySeven
    /\ [][RoundTripStep => celsius' = celsius]_vars

\* An integer multiple of 5 of magnitude below 2^49: its product with 9, the
\* fifth of that and the sum with 32 are all integers a double holds exactly.
IsSmallMultipleOfFive(c) ==
    \/ c = Zero
    \/ /\ c.exp >= 0
       /\ BitLen(c.mant) + c.exp <= 49
       /\ DivSmall(c.mant, 5).r = 0

\* C7, amended: at 25 degrees the getter reads 77, and assigning the fahrenheit
\* just read back leaves the stored celsius as it was when that is an integer
\* multiple of 5 (as 25 is); for other values the two roundings of the division
\* may move it.
C7_RoundTripOnMultiplesOfFive ==
    /\ []ReadsSeventySeven
    /\ [][(RoundTripStep /\ IsSmallMultipleOfFive(celsius)) => celsius' = celsius]_vars

\* 25 -> 77 -> 25
C7_Witness ==
    /\ tempOp = "setFahrenheit"
    /\ tempArg = FromInt(77)
    /\ celsius = FromInt(25)

\* C8: assigning a value below -273.15 through the celsius setter throws
\* "Temperature cannot be below absolute zero" and leaves the stored value;
\* assigning any value >= -273.15, -273.15 itself included, stores it.
C8_CelsiusSetterGuard ==
    [][tempOp' = "setCelsius" =>
         IF FLess(tempArg', AbsoluteZero)
           THEN /\ tempThrown' = "Temperature cannot be below absolute zero"
                /\ celsius' = celsius
           ELSE /\ tempThrown' = ""
                /\ celsius' = tempArg']_vars

\* -273.15 itself is stored.
C8_Witness ==
    /\ tempOp = "setCelsius"
    /\ tempArg = AbsoluteZero
    /\ celsius = AbsoluteZero
    /\ tempThrown = ""

\* C9: the constructor and the fahrenheit setter store their value without the
\* absolute-zero check and never throw, so a stored celsius below -273.15 is
\* reached (the witness).
C9_OnlyCelsiusSetterGuards ==
    /\ tempOp = "new" => celsius = tempArg /\ tempThrown = ""
    /\ tempOp = "setFahrenheit" =>
         /\ tempThrown = ""
         /\ FLess(CelsiusOf(tempArg), AbsoluteZero) => FLess(celsius, AbsoluteZero)

\* A fahrenheit of -460, below -459.67, was assigned and the stored celsius is
\* below -273.15.
C9_Witness ==
    /\ tempOp = "setFahrenheit"
    /\ tempArg = FromInt(-460)
    /\ FLess(celsius, AbsoluteZero)

\* The callbacks registered for an event, in registration order
RegisteredFor(ls, event) == IF event \in DOMAIN ls THEN ls[event] ELSE <<>>

FirstThrower(callbacks) ==
    IF \E i \in 1 .. Len(callbacks) : callbacks[i] = "thrower"
      THEN CHOOSE i \in 1 .. Len(callbacks) :
             /\ callbacks[i] = "thrower"
             /\ \A j \in 1 .. i - 1 : callbacks[j] # "thrower"
      ELSE 0

\* The number of "subscriber" among the first n callbacks of a list
SubscribersIn(callbacks, n) ==
    Cardinality({i \in 1 .. n : callbacks[i] = "subscriber"})

\* C11: when a callback registered for the event throws during emit(event,
\* data), the callbacks registered after it are not called in that emit, the
\* error reaches the caller of emit, and the failure removes nothing from the
\* registry: every list is as the callbacks that ran before the throw left it.
C11_ThrowStopsEmitAndPropagates ==
    [][emitterOp'.op = "emit" =>
         LET event == emitterOp'.event
             before == RegisteredFor(listeners, event)
             k == FirstThrower(before)
         IN  k > 0 =>
               /\ emitterThrown' = CallbackError
               /\ invoked' = [i \in 1 .. k |-> <<before[i], event, emitterOp'.arg>>]
               /\ listeners' = [listeners EXCEPT ![event] =
                      before \o [i \in 1 .. SubscribersIn(before, k) |-> Second]]]_vars

\* "thrower" registered between "logger" and "counter": the emit called
\* "logger" and "thrower", left the error to its caller and kept all three.
C11_Witness ==
    /\ emitterOp = [op |-> "emit", event |-> "message", arg |-> "Hello World"]
    /\ emitterThrown = CallbackError
    /\ listeners = ("message" :> <<"logger", "thrower", "counter">>)
    /\ invoked = << <<"logger", "message", "Hello World">>,
                    <<"thrower", "message", "Hello World">> >>

\* Whether s is an initial segment of t
IsPrefix(s, t) == Len(s) <= Len(t) /\ SubSeq(t, 1, Len(s)) = s

\* The on() calls for an event that a step added to those made before it
NewOnCalls(event) == SubSeq(onCalls'[event], Len(onCalls[event]) + 1, Len(onCalls'[event]))

\* C12: there is no unsubscribe.  After every step the list of each event is
\* the sequence of callbacks on() was called with for that event, in call
\* order with duplicates kept; a call on(e, cb) appends cb to e's list and
\* changes no other list; an emit changes a list only by the on() calls its
\* callbacks make; and no list shrinks or is reordered.
C12_ListIsOnCallHistory ==
    [][/\ \A e \in EventNames : RegisteredFor(listeners', e) = onCalls'[e]
       /\ emitterOp'.op = "on" =>
            \A e \in EventNames :
               RegisteredFor(listeners', e) =
                 IF e = emitterOp'.event
                   THEN Append(RegisteredFor(listeners, e), emitterOp'.arg)
                   ELSE RegisteredFor(listeners, e)
       /\ emitterOp'.op = "emit" =>
            \A e \in EventNames :
               RegisteredFor(listeners', e) = RegisteredFor(listeners, e) \o NewOnCalls(e)
       /\ \A e \in EventNames :
            IsPrefix(RegisteredFor(listeners, e), RegisteredFor(listeners', e))]_vars

\* What C18 says of every emit, with Invoked(before, i) telling whether the
\* callback `Second` at position i of the list the emit starts with has to be
\* called: the calls made are of callbacks registered before the emit started,
\* each "subscriber" called has appended one `Second` to the event's list, and
\* every `Second` an earlier emit left in the list is called at its position.
EmitRunsEarlierSubscriptions(Invoked(_, _)) ==
    (emitterOp'.op = "emit" /\ emitterOp'.event \in DOMAIN listeners) =>
       LET event == emitterOp'.event
           before == listeners[event]
           made == Len(invoked')
       IN  /\ made <= Len(before)
           /\ \A i \in 1 .. made : invoked'[i] = <<before[i], event, emitterOp'.arg>>
           /\ listeners'[event] =
                before \o [i \in 1 .. SubscribersIn(before, made) |-> Second]
           /\ \A i \in 1 .. Len(before) :
                (before[i] = Second /\ Invoked(before, i)) =>
                   (i <= made /\ invoked'[i] = <<Second, event, emitterOp'.arg>>)

EveryLaterEmit(before, i) == TRUE
NoEarlierThrower(before, i) == \A j \in 1 .. i - 1 : before[j] # "thrower"

C17_FourMembersDistinguished ==
    httpCalled =>
      /\ status = HttpStatus.OK => httpResult = "Request successful"
      /\ status = HttpStatus.BadRequest => httpResult = "Bad request"
      /\ status = HttpStatus.NotFound => httpResult = "Resource not found"
      /\ status = HttpStatus.InternalServerError => httpResult = "Server error"
      /\ status \in {HttpStatus.Unauthorized, HttpStatus.Forbidden} =>
           httpResult = "Unknown status"
      /\ status \notin HttpStatusMembers => httpResult = "Unknown status"
      /\ httpResult \in {"Request successful", "Bad request", "Resource not found",
                         "Server error", "Unknown status"}

C17_Witness ==
    httpCalled /\ status = HttpStatus.Unauthorized /\ httpResult = "Unknown status"

\* The earliest of a sequence of items whose field id equals value, if any
EarliestMatch(items, id, value) ==
    LET matches == {i \in 1 .. Len(items) : StrictEquals(items[i][id], value)}
    IN  IF matches = {} THEN <<>>
        ELSE <<items[CHOOSE i \in matches : \A j \in matches : i <= j]>>

\* C13: count() returns the number of add() calls made so far, getAll()
\* returns the items added, in the order of the calls and with duplicates, and
\* findById(id, value) returns the earliest-added item whose field id equals
\* value, or undefined when there is none.
C13_RepositoryKeepsWhatWasAdded ==
    /\ repoOp.op = "count" => countResult = Len(adds)
    /\ repoOp.op = "getAll" => arrays[held] = adds
    /\ repoOp.op = "findById" => findResult = EarliestMatch(adds, repoOp.key, repoOp.value)

\* Two users named Bob were added after Alice: findById("name", "Bob") returns
\* the one added first.
C13_Witness ==
    /\ adds = <<[id |-> Num("1"), name |-> Str("Alice")],
                [id |-> Num("2"), name |-> Str("Bob")],
                [id |-> Num("1"), name |-> Str("Bob")]>>
    /\ repoOp = RepoCalled("findById", "name", Str("Bob"), <<>>)
    /\ findResult = <<[id |-> Num("2"), name |-> Str("Bob")]>>

\* What the repository shows its caller: count(), the contents of the array
\* getAll() would return, and findById(id, value) for every id and value
Observed(mem) ==
    [count |-> Len(mem["items"]),
     all |-> GetAllResult(mem).arrays[GetAllResult(mem).returned],
     found |-> [k \in UserKeys, v \in FieldValues |-> FindFrom(mem["items"], k, v, 1)]]

\* C19: getAll() returns a copy.  A push, pop or reverse of the returned array
\* changes neither count() nor what a later getAll() or findById() returns,
\* and a later add() leaves the returned array as it was.
C19_GetAllReturnsACopy ==
    [][/\ repoOp'.op \in {"push", "pop", "reverse"} => Observed(arrays') = Observed(arrays)
       /\ (repoOp'.op = "add" /\ held # "none") => arrays'[held] = arrays[held]]_vars

\* The caller reversed the array getAll() returned; the repository still has
\* the two users in the order they were added.
C19_Witness ==
    /\ repoOp.op = "reverse"
    /\ adds = <<[id |-> Num("1"), name |-> Str("Alice")], [id |-> Num("2"), name |-> Str("Bob")]>>
    /\ arrays[held] = Reversed(adds)
    /\ arrays["items"] = adds

\* C20: getFirstElement(arr) returns undefined when arr is empty and arr[0]
\* otherwise; it has a result for every array.
C20_FirstElementOrUndefined ==
    firstCalled =>
      /\ arr = <<>> => firstResult = <<>>
      /\ arr # <<>> => firstResult = <<arr[1]>>

\* An array of one element, the shortest that has a first element
C20_Witness == firstCalled /\ arr = <<"b">> /\ firstResult = <<"b">>

\* The value get(key) has to return when set(key, ..) was last called with
\* `last`, or never (<<>>)
ExpectedOfGet(last) ==
    IF last = <<>> THEN Undefined ELSE [kind |-> "value", value |-> last[1]]

\* C15: getInstance() returns the same instance on every call and at most
\* one ConfigManager is ever constructed, so get(key) through any result of
\* getInstance() returns the value last stored with set(key, v) through any
\* of them, and undefined for a key that was never set.
C15_OneSharedInstance ==
    /\ Len(managers) <= 1
    /\ \A h \in 1 .. Len(handles) : handles[h] = instance
    /\ cfgOp.op = "get" => cfgResult = ExpectedOfGet(stored[cfgOp.key])

\* What processData logs
DataLogged == <<[stream |-> "log", text |-> "Data from " \o ApiUrl]>>

\* C14: processData stays at the await while the promise of fetchData is
\* pending, and goes on only after the timer has fired.  The promise of
\* fetchData(url) is settled once, by resolve("Data from <url>"), and never
\* rejected; nothing is logged before the timer has fired, the only line
\* logged is the data, and the catch branch is never taken.  Every pending
\* promise is eventually fulfilled, and processData eventually logs.
C14_ResumesAfterTimerAndLogs ==
    /\ [](/\ promise.state # "rejected"
          /\ asyncPc # "caught"
          /\ Len(settles) <= 1
          /\ promise.state = "fulfilled" <=> settles # <<>>
          /\ promise.state = "fulfilled" => promise.value = "Data from " \o caller.url
          /\ (caller.who = "processData" /\ promise.state = "pending") => asyncPc = "await"
          /\ asyncConsole \in {<<>>, DataLogged})
    /\ [][/\ asyncConsole' # asyncConsole => (settles # <<>> /\ timers = {})
          /\ promise.state = "fulfilled" => promise' = promise]_vars
    /\ (promise.state = "pending") ~> (promise.state = "fulfilled")
    /\ (asyncPc = "await") ~> (asyncPc = "done" /\ asyncConsole = DataLogged)

\* processData has logged the data, one second or more after it was called
C14_Witness ==
    /\ caller = [who |-> "processData", url |-> ApiUrl]
    /\ asyncPc = "done"
    /\ asyncConsole = DataLogged
    /\ promise = [state |-> "fulfilled", value |-> "Data from https://api.example.com"]
    /\ now >= TimerDelay

\* The concatenation of a sequence of arrays, in order
RECURSIVE Flattened(_)
Flattened(parts) ==
    IF parts = <<>> THEN <<>> ELSE Head(parts) \o Flattened(Tail(parts))

\* C21: for an integer size >= 1, the chunks chunk(array, size) returns are,
\* concatenated in order, the array; every chunk but the last has exactly size
\* elements and the last has 1 .. size; the empty array gives no chunk; and
\* the array is at no time other than it was passed.
C21_ChunksPartitionTheArray ==
    chunkSize >= 1 =>
      /\ chunkArray = chunkInput
      /\ chunkPc = "returned" =>
           /\ Flattened(chunks) = chunkInput
           /\ \A k \in 1 .. Len(chunks) - 1 : Len(chunks[k]) = chunkSize
           /\ chunks # <<>> => Len(chunks[Len(chunks)]) \in 1 .. chunkSize
           /\ chunkInput = <<>> => chunks = <<>>

\* Three elements in chunks of two: a full chunk and a last one of one element
C21_Witness ==
    /\ chunkPc = "returned"
    /\ chunkInput = <<"a", "b", "c">>
    /\ chunkSize = 2
    /\ chunks = << <<"a", "b">>, <<"c">> >>
    /\ chunkArray = <<"a", "b", "c">>

\* The calls of chunk that C22 says never return
NeverReturns == chunkInput # <<>> /\ chunkSize <= 0

\* C22: chunk(array, size) returns exactly when the array is empty or
\* size >= 1.  For an array that is not empty and size <= 0 the index never
\* reaches array.length: the test of the loop holds every time it is made,
\* and every iteration appends one more chunk; every other call returns.
C22_ChunkReturnsExactlyWhen ==
    /\ [](chunkPc = "returned" => ~NeverReturns)
    /\ []((NeverReturns /\ chunkPc = "loop") => chunkI < Len(chunkArray))
    /\ [][(NeverReturns /\ chunkPc = "loop") =>
            (chunkPc' = "loop" /\ Len(chunks') = Len(chunks) + 1)]_vars
    /\ (chunkPc = "call" /\ ~NeverReturns) ~> (chunkPc = "returned")

\* chunk(["a"], 0) after as many iterations as are followed: i is still 0
\* and every chunk is empty.
C22_Witness ==
    /\ chunkInput = <<"a">>
    /\ chunkSize = 0
    /\ chunkPc = "loop"
    /\ chunkI = 0
    /\ Len(chunks) = MaxChunks
    /\ \A k \in 1 .. Len(chunks) : chunks[k] = <<>>

\* How many times an element occurs in an array
Occurrences(array, element) ==
    Cardinality({i \in 1 .. Len(array) : array[i] = element})

\* Whether two arrays have the same length and the same elements, each as
\* many times
IsPermutation(s, t) ==
    /\ Len(s) = Len(t)
    /\ \A element \in Elements : Occurrences(s, element) = Occurrences(t, element)

\* C23: whatever the random indexes are, the array shuffle returns is a
\* permutation of its argument (same length, same elements as many times),
\* the argument is at no time other than it was passed, and the call returns.
C23_ShuffleReturnsAPermutation ==
    /\ [](shufflePc = "returned" => IsPermutation(shuffled, shuffleInput))
    /\ [](shuffleArray = shuffleInput)
    /\ (shufflePc = "call") ~> (shufflePc = "returned")

\* shuffle(["a", "b", "c"]) has returned ["c", "a", "b"]
C23_Witness ==
    /\ shufflePc = "returned"
    /\ shuffleInput = <<"a", "b", "c">>
    /\ shuffleArray = <<"a", "b", "c">>
    /\ shuffled = <<"c", "a", "b">>

\* k * (k + 1) * ... * n, and 1 when there is no such factor
RECURSIVE AscendingProduct(_, _)
AscendingProduct(k, n) == IF k > n THEN 1 ELSE k * AscendingProduct(k + 1, n)

\* C24: factorial(n) returns for every integer n; every call, the inner ones
\* included, returns 1 when its n <= 1 (negative n too) and n times what
\* factorial(n - 1) returns when n >= 2, so factorial(5) returns 120.
C24_FactorialReturns ==
    /\ [](factPc \in {"up", "returned"} =>
            /\ factN <= 1 => factResult = 1
            /\ factN >= 2 => factResult = factN * AscendingProduct(2, factN - 1))
    /\ []((factPc = "returned" /\ factArg = 5) => factResult = 120)
    /\ [](factPc = "returned" => factN = factArg)
    /\ (factPc = "call") ~> (factPc = "returned")

\* factorial(5) has returned 120
C24_Witness == factPc = "returned" /\ factArg = 5 /\ factResult = 120

\* What C25 says of a call truncate(str, length), for the lengths that
\* satisfy InDomain: str itself when str.length <= length, and otherwise the
\* first length characters of str followed by "...", which are length + 3
\* characters, more than str has when str.length < length + 3.
TruncatesToLengthPlusThree(InDomain(_)) ==
    (truncCalled /\ InDomain(truncLength)) =>
       /\ Len(truncStr) <= truncLength => truncResult = truncStr
       /\ Len(truncStr) > truncLength =>
            /\ truncResult = SubSeq(truncStr, 1, truncLength) \o "..."
            /\ Len(truncResult) = truncLength + 3
            /\ Len(truncStr) < truncLength + 3 => Len(truncResult) > Len(truncStr)

EveryLength(length) == TRUE
NotNegative(length) == length >= 0

\* C25 as stated, for every length
C25_TruncatedHasLengthPlusThree == TruncatesToLengthPlusThree(EveryLength)

\* C25, amended: as stated for length >= 0; for a negative length the result
\* is "...", three characters.
C25_TruncatedHasLengthPlusThreeFromZero ==
    /\ TruncatesToLengthPlusThree(NotNegative)
    /\ (truncCalled /\ truncLength < 0) => truncResult = "..."

\* truncate("Hello", 4) returned "Hell...", seven characters for five
C25_Witness ==
    /\ truncCalled
    /\ truncStr = "Hello"
    /\ truncLength = 4
    /\ truncResult = "Hell..."

====
